---- MODULE Spec2Model ----
(***************************************************************************)
(* A model of the CMRP dashboard front end (script.js and                  *)
(* mrf_items_log.js): apiFetch, the feedback area, the CSV export, the     *)
(* project tables with their sort state and inline status edit, and the    *)
(* MRF items log.                                                          *)
(*                                                                         *)
(* Strings are sequences of atoms.  An atom is a one-character string, or  *)
(* a longer string that holds no comma, double quote or newline and stands *)
(* for that run of characters.  Numbers are integers in hundredths.        *)
(***************************************************************************)
EXTENDS Integers, Sequences, FiniteSets, TLC

VARIABLES
    \* ---- apiFetch (script.js) ----
    authToken,      \* TRUE while localStorage holds an authToken entry
    location,       \* window.location.href
    apiCall         \* the last apiFetch call: its url, response and outcome

apiVars == <<authToken, location, apiCall>>

VARIABLES
    \* ---- the feedback area (script.js) ----
    fbText,         \* feedbackDiv.textContent
    fbDisplay,      \* feedbackDiv.style.display
    fbClass,        \* feedbackDiv.className
    fbTimers,       \* the pending auto-hide timers
    now,            \* the time, in seconds
    fbCalls,        \* how many displayFeedback calls there were
    fbShownBy,      \* history: the displayFeedback call whose message is shown
    fbLastHide      \* history: the last auto-hide, its timer and what it hid

fbVars == <<fbText, fbDisplay, fbClass, fbTimers, now, fbCalls, fbShownBy, fbLastHide>>

VARIABLES
    \* ---- formatCsvCell (script.js) ----
    csvValue,       \* the value handed to formatCsvCell
    csvCell         \* what formatCsvCell returned for it

csvVars == <<csvValue, csvCell>>

VARIABLES
    \* ---- the project tables of the dashboard (script.js) ----
    currentProjectsData,            \* the active projects last fetched
    currentCompletedProjectsData,   \* the completed projects last fetched
    currentSort,                    \* {key, direction}
    currentlyEditingCell,           \* the cell edited inline, with what the
                                    \* closure of makeCellEditable holds for it
    activeRows,                     \* the rows of activeProjectsTableBody
    completedRows,                  \* the rows of completedProjectsTableBody
    activeFetches,                  \* GET /api/projects requests in flight
    completedFetches,               \* GET /api/projects/completed in flight
    puts,                           \* the PUT requests of saveEdit in flight
    lastEvent                       \* history: what the handler that ran last
                                    \* displayed or produced (the Blob of an
                                    \* export, the cell text after a PUT)

uiVars == <<currentProjectsData, currentCompletedProjectsData, currentSort,
            currentlyEditingCell, activeRows, completedRows, activeFetches,
            completedFetches, puts, lastEvent>>

VARIABLES
    \* ---- the MRF items log (mrf_items_log.js) ----
    mrfRows,            \* the rows of mrfItemsLogTableBody
    mrfErrorDisplay,    \* errorDisplay.textContent
    mrfLoading,         \* whether loadingIndicator is displayed
    mrfAlert,           \* the text of the last alert, '' before the first
    mrfRequests,        \* the requests in flight
    mrfActions,         \* how many deletes and cell saves the user has made
    mrfLast             \* history: the request answered last, what its
                        \* handler showed and how many requests it sent

mrfVars == <<mrfRows, mrfErrorDisplay, mrfLoading, mrfAlert, mrfRequests, mrfActions,
             mrfLast>>

VARIABLES
    \* ---- parseDate (script.js) ----
    dateStr,        \* the string handed to parseDate
    dateParsed,     \* what parseDate returned for it
    engine          \* how the browser's Date constructor reads a string

dateVars == <<dateStr, dateParsed, engine>>

VARIABLES
    \* ---- the sort of renderActiveTable and renderCompletedTable ----
    sortArgs,       \* the array to render and the sort state
    sortedData      \* dataToRender after the sort

sortVars == <<sortArgs, sortedData>>

VARIABLES
    \* ---- the filter inputs of the project tables ----
    filterInputs    \* the text in the filter input of each table

filterVars == <<filterInputs>>

vars == <<apiVars, fbVars, csvVars, uiVars, mrfVars, dateVars, sortVars, filterVars>>

(***************************************************************************)
(* JavaScript values                                                       *)
(***************************************************************************)
Undef == "<undefined>"                  \* a property that is not there
JsUndefined == [t |-> "undefined"]
JsNull == [t |-> "null"]
JsObj(e, m) == [t |-> "object", error |-> e, message |-> m]
JsStr(s) == [t |-> "string", s |-> s]

\* ToBoolean of a string-valued property ('' and undefined are falsy)
TruthyStr(s) == s # "" /\ s # Undef
\* ToBoolean of a value
Truthy(v) ==
    CASE v.t = "undefined" -> FALSE
      [] v.t = "null" -> FALSE
      [] v.t = "string" -> v.s # <<>>
      [] OTHER -> TRUE
\* v?.p for a string-valued property p
OptError(v) == IF v.t = "object" THEN v.error ELSE Undef
OptMessage(v) == IF v.t = "object" THEN v.message ELSE Undef

(***************************************************************************)
(* Numbers and their conversions: String(n), parseFloat, toFixed,          *)
(* safeFloat, formatPercent, formatCurrency                                *)
(***************************************************************************)
Num(h) == [t |-> "number", v |-> h]     \* the number h / 100
NaN == [t |-> "NaN"]
PosInfinity == [t |-> "Infinity"]
NegInfinity == [t |-> "-Infinity"]

Digits == <<"0", "1", "2", "3", "4", "5", "6", "7", "8", "9">>
IsDigit(c) == \E d \in 1..10 : Digits[d] = c
DigitValue(c) == (CHOOSE d \in 1..10 : Digits[d] = c) - 1

\* The decimal digits of a natural number.
RECURSIVE NatToString(_)
NatToString(n) ==
    IF n < 10 THEN <<Digits[n + 1]>>
    ELSE NatToString(n \div 10) \o <<Digits[(n % 10) + 1]>>

\* The number a run of digits writes.
RECURSIVE DigitsToNat(_)
DigitsToNat(ds) ==
    IF ds = <<>> THEN 0
    ELSE DigitsToNat(SubSeq(ds, 1, Len(ds) - 1)) * 10 + DigitValue(ds[Len(ds)])

\* The longest run of digits s starts with.
RECURSIVE LeadingDigits(_)
LeadingDigits(s) ==
    IF s # <<>> /\ IsDigit(Head(s)) THEN <<Head(s)>> \o LeadingDigits(Tail(s)) ELSE <<>>

\* String(n) of a number of hundredths: no trailing zeros, no point when whole.
NumberToString(h) ==
    LET a == IF h < 0 THEN -h ELSE h
        whole == NatToString(a \div 100)
        frac == a % 100
        text == IF frac = 0 THEN whole
                ELSE IF frac % 10 = 0 THEN whole \o <<".", Digits[(frac \div 10) + 1]>>
                ELSE whole \o <<".", Digits[(frac \div 10) + 1], Digits[(frac % 10) + 1]>>
    IN IF h < 0 THEN <<"-">> \o text ELSE text

\* String(value)
ToStr(value) ==
    CASE value.t = "string" -> value.s
      [] value.t = "number" -> NumberToString(value.v)
      [] value.t = "null" -> <<"null">>
      [] value.t = "undefined" -> <<"undefined">>
      [] value.t = "NaN" -> <<"NaN">>
      [] value.t = "Infinity" -> <<"Infinity">>
      [] OTHER -> <<"-Infinity">>

\* parseFloat(s): the number the longest numeric prefix writes (hundredths;
\* digits after the second decimal are dropped), NaN when there is none.
ParseFloat(s) ==
    LET neg == s # <<>> /\ Head(s) = "-"
        body == IF neg THEN Tail(s) ELSE s
        whole == LeadingDigits(body)
        rest == SubSeq(body, Len(whole) + 1, Len(body))
        frac == IF rest # <<>> /\ Head(rest) = "." THEN LeadingDigits(Tail(rest)) ELSE <<>>
        frac2 == SubSeq(frac \o <<"0", "0">>, 1, 2)
        h == DigitsToNat(whole) * 100 + DigitsToNat(frac2)
    IN IF whole = <<>> /\ frac = <<>> THEN NaN
       ELSE Num(IF neg THEN -h ELSE h)

Peso == "<peso>"                        \* the currency sign U+20B1
\* .replace(/[$,<peso>%]/g, '').replace(/,/g, '')
StripSymbols(s) == SelectSeq(s, LAMBDA c : c \notin {"$", ",", Peso, "%"})
\* .trim()
RECURSIVE TrimLeft(_)
TrimLeft(s) == IF s # <<>> /\ Head(s) = " " THEN TrimLeft(Tail(s)) ELSE s
RECURSIVE TrimRight(_)
TrimRight(s) ==
    IF s # <<>> /\ s[Len(s)] = " " THEN TrimRight(SubSeq(s, 1, Len(s) - 1)) ELSE s
Trim(s) == TrimRight(TrimLeft(s))

safeFloat(value, fallback) ==
    IF value.t \in {"null", "undefined"} THEN fallback
    ELSE LET strValue == Trim(StripSymbols(ToStr(value))) IN
         IF strValue = <<>> THEN fallback
         ELSE LET num == ParseFloat(strValue) IN
              IF num = NaN THEN fallback ELSE num

\* n.toFixed(1) of a number of hundredths that is not negative (a half is
\* rounded up; the values of the model have no 5 in the hundredths)
ToFixed1(h) ==
    LET tenths == (h + 5) \div 10 IN
    NatToString(tenths \div 10) \o <<".", Digits[(tenths % 10) + 1]>>
\* parseFloat(n.toFixed(1))
RoundToTenth(h) == ((h + 5) \div 10) * 10

NotAvailable == <<"N", "/", "A">>

formatPercent(value) ==
    LET numVal == safeFloat(value, NaN) IN
    IF numVal = NaN THEN NotAvailable ELSE ToFixed1(numVal.v) \o <<"%">>

\* Intl.NumberFormat('en-PH', {style: 'currency', currency: 'PHP', 2 digits}):
\* the sign, the whole part in groups of three, the point, two digits.
RECURSIVE Grouped(_)
Grouped(n) ==
    IF n < 1000 THEN NatToString(n)
    ELSE LET low == n % 1000 IN
         Grouped(n \div 1000)
             \o <<",", Digits[(low \div 100) + 1], Digits[((low \div 10) % 10) + 1],
                  Digits[(low % 10) + 1]>>
formatCurrency(value) ==
    LET numVal == safeFloat(value, NaN) IN
    IF numVal = NaN THEN NotAvailable
    ELSE <<Peso>> \o Grouped(numVal.v \div 100)
            \o <<".", Digits[((numVal.v % 100) \div 10) + 1], Digits[(numVal.v % 10) + 1]>>

(***************************************************************************)
(* Strings and formatCsvCell                                               *)
(***************************************************************************)
MaxLen == 3             \* the longest string handed to formatCsvCell

Quote == "\""
Comma == ","
Newline == "\n"
CsvSpecial == {Quote, Comma, Newline}   \* the characters /[",\n]/ matches
Alphabet == {"a", "\r"} \cup CsvSpecial

RECURSIVE StringsUpTo(_)
StringsUpTo(n) ==
    IF n = 0 THEN {<<>>}
    ELSE LET shorter == StringsUpTo(n - 1) IN
         shorter \cup {Append(s, c) : s \in {t \in shorter : Len(t) = n - 1}, c \in Alphabet}

CsvValues == {JsNull, JsUndefined} \cup {JsStr(s) : s \in StringsUpTo(MaxLen)}

\* Whether string s holds one of the atoms of set cs.
HasAny(s, cs) == \E i \in 1..Len(s) : s[i] \in cs

\* stringValue.replace(/"/g, '""')
RECURSIVE DoubleQuotes(_)
DoubleQuotes(s) ==
    IF s = <<>> THEN <<>>
    ELSE (IF Head(s) = Quote THEN <<Quote, Quote>> ELSE <<Head(s)>>) \o DoubleQuotes(Tail(s))

\* value === null || value === undefined ? '' : String(value)
StringValue(value) == IF value.t \in {"null", "undefined"} THEN <<>> ELSE ToStr(value)

\* A formatCsvCell that quotes on a comma or a newline only.
formatCsvCellQuoteBlind(value) ==
    LET stringValue == StringValue(value) IN
    IF HasAny(stringValue, {Comma, Newline})
    THEN <<Quote>> \o DoubleQuotes(stringValue) \o <<Quote>>
    ELSE stringValue

formatCsvCell(value) ==
    LET stringValue == StringValue(value) IN
    IF HasAny(stringValue, CsvSpecial)
    THEN <<Quote>> \o DoubleQuotes(stringValue) \o <<Quote>>
    ELSE stringValue

NotFormatted == <<"<not formatted>">>

\* formatCsvCell(csvValue) is called.
FormatCsvCell ==
    /\ csvCell = NotFormatted
    /\ csvCell' = formatCsvCell(csvValue)
    /\ UNCHANGED csvValue

\* The next value is taken up.
NextCsvValue(v) ==
    /\ csvCell # NotFormatted
    /\ csvValue' = v
    /\ csvCell' = NotFormatted

CsvInit == csvValue \in CsvValues /\ csvCell = NotFormatted
CsvIdle == csvValue = JsNull /\ csvCell = NotFormatted

(***************************************************************************)
(* parseDate                                                                *)
(***************************************************************************)
\* A Date that stands for a day (UTC), the invalid Date, and null.
Day(y, m, d) == [t |-> "date", y |-> y, m |-> m, d |-> d]
InvalidDate == [t |-> "invalid"]
NotParsed == [t |-> "pending"]

IsLeap(y) == (y % 4 = 0 /\ y % 100 # 0) \/ y % 400 = 0
DaysInMonth(y, m) ==
    IF m = 2 THEN (IF IsLeap(y) THEN 29 ELSE 28)
    ELSE IF m \in {4, 6, 9, 11} THEN 30 ELSE 31

\* new Date(Date.UTC(year, month - 1, day)) for a month of 1..12 and a day of
\* 1..31: a day past the end of the month runs over into the next month.
DateUTC(year, month, day) ==
    IF day <= DaysInMonth(year, month) THEN Day(year, month, day)
    ELSE Day(year, month + 1, day - DaysInMonth(year, month))

\* strInput.match(/^(\d{4})-(\d{2})-(\d{2})/)
IsoMatch(s) ==
    IF /\ Len(s) >= 10
       /\ \A i \in {1, 2, 3, 4, 6, 7, 9, 10} : IsDigit(s[i])
       /\ s[5] = "-" /\ s[8] = "-"
    THEN [ok |-> TRUE, year |-> DigitsToNat(SubSeq(s, 1, 4)),
          month |-> DigitsToNat(SubSeq(s, 6, 7)), day |-> DigitsToNat(SubSeq(s, 9, 10))]
    ELSE [ok |-> FALSE]

\* strInput.match(/^(\d{1,2})\/(\d{1,2})\/(\d{4})/): the month has i digits and
\* the day j, which the slashes after them leave no choice about.
SlashMatch(s) ==
    LET found == {ij \in (1..2) \X (1..2) :
                     /\ Len(s) >= ij[1] + ij[2] + 6
                     /\ \A k \in 1..ij[1] : IsDigit(s[k])
                     /\ s[ij[1] + 1] = "/"
                     /\ \A k \in (ij[1] + 2)..(ij[1] + ij[2] + 1) : IsDigit(s[k])
                     /\ s[ij[1] + ij[2] + 2] = "/"
                     /\ \A k \in (ij[1] + ij[2] + 3)..(ij[1] + ij[2] + 6) : IsDigit(s[k])}
    IN IF found = {} THEN [ok |-> FALSE]
       ELSE CHOOSE match \in {[ok |-> TRUE,
                               year |-> DigitsToNat(SubSeq(s, ij[1] + ij[2] + 3,
                                                           ij[1] + ij[2] + 6)),
                               month |-> DigitsToNat(SubSeq(s, 1, ij[1])),
                               day |-> DigitsToNat(SubSeq(s, ij[1] + 2, ij[1] + ij[2] + 1))] :
                                  ij \in found} : TRUE

\* The branch of parseDate for matched parts: the Date, or null for a fall
\* through to the next attempt.
FromParts(match) ==
    IF /\ match.ok
       /\ match.month >= 1 /\ match.month <= 12 /\ match.day >= 1 /\ match.day <= 31
       /\ DateUTC(match.year, match.month, match.day)
              = Day(match.year, match.month, match.day)
    THEN Day(match.year, match.month, match.day)
    ELSE JsNull

\* new Date(strInput), which ECMAScript leaves to the implementation for a
\* string that is no valid ISO date.  A strict engine gives the invalid Date;
\* a lenient one (V8, for both forms) lets a day of 1..31 past the end of the
\* month run over.  It is reached only for strings the two branches before
\* it have turned down.
Engines == {"strict", "lenient"}
RunOver(match) ==
    IF /\ match.ok
       /\ match.month >= 1 /\ match.month <= 12 /\ match.day >= 1 /\ match.day <= 31
    THEN DateUTC(match.year, match.month, match.day)
    ELSE InvalidDate
DateConstructor(s) ==
    IF engine = "lenient"
    THEN RunOver(IF IsoMatch(s).ok THEN IsoMatch(s) ELSE SlashMatch(s))
    ELSE InvalidDate

\* What parseDate returns, given what its three attempts have made.
FirstDate(iso, slash, made) ==
    IF iso # JsNull THEN iso
    ELSE IF slash # JsNull THEN slash
    ELSE IF made # InvalidDate THEN made
    ELSE JsNull
\* parseDate(dateStr) for a string s, made being what new Date(s) gives.
parseDate(s, made) ==
    IF s = <<>> THEN JsNull
    ELSE FirstDate(FromParts(IsoMatch(s)), FromParts(SlashMatch(s)), made)

Pad2(n) == <<Digits[(n \div 10) + 1], Digits[(n % 10) + 1]>>
IsoString(y, m, d) == NatToString(y) \o <<"-">> \o Pad2(m) \o <<"-">> \o Pad2(d)
SlashString(y, m, d) ==
    NatToString(m) \o <<"/">> \o NatToString(d) \o <<"/">> \o NatToString(y)
\* The strings handed to parseDate: days that exist and days that do not, in
\* both forms, and strings of neither form.
DateStrings ==
    {IsoString(y, m, d) : y \in {2023, 2024}, m \in {0, 2, 4, 12, 13}, d \in {0, 1, 29, 30, 31, 32}}
        \cup {SlashString(y, m, d) :
                 y \in {2023, 2024}, m \in {0, 2, 4, 12, 13}, d \in {0, 1, 29, 30, 31, 32}}
        \cup {<<>>, <<"a", "b", "c">>, <<"2", "0", "2", "4">>}

\* parseDate(dateStr) is called.
ParseDate ==
    /\ dateParsed = NotParsed
    /\ dateParsed' = parseDate(dateStr, DateConstructor(dateStr))
    /\ UNCHANGED <<dateStr, engine>>

\* The next string is taken up.
NextDateStr(s) ==
    /\ dateParsed # NotParsed
    /\ dateStr' = s
    /\ dateParsed' = NotParsed
    /\ UNCHANGED engine

DateInit == dateStr \in DateStrings /\ dateParsed = NotParsed /\ engine \in Engines
\* No date is parsed.
DateIdle == dateStr = <<>> /\ dateParsed = NotParsed /\ engine = "lenient"

(***************************************************************************)
(* The project tables: sorting and rendering                               *)
(***************************************************************************)
\* The UTF-16 order of the characters the model's strings are made of.
CharOrder ==
    <<Newline, "\r", " ", Quote, "%", Comma, "-", ".", "/">> \o Digits
        \o <<"A", "B", "N", "a", "b", "c", "n", Peso>>
CharCode(c) == CHOOSE i \in 1..Len(CharOrder) : CharOrder[i] = c
\* c.toLowerCase()
LowerChar(c) ==
    CASE c = "A" -> "a" [] c = "B" -> "b" [] c = "N" -> "n" [] OTHER -> c
toLowerCase(s) == [i \in 1..Len(s) |-> LowerChar(s[i])]
\* s < t for strings
RECURSIVE StringLess(_, _)
StringLess(s, t) ==
    IF t = <<>> THEN FALSE
    ELSE IF s = <<>> THEN TRUE
    ELSE IF Head(s) = Head(t) THEN StringLess(Tail(s), Tail(t))
    ELSE CharCode(Head(s)) < CharCode(Head(t))

\* The sign of numA - numB, 0 where the difference is NaN (sort reads NaN as 0).
SignOfDifference(numA, numB) ==
    IF numA.t = "number" /\ numB.t = "number"
    THEN (IF numA.v < numB.v THEN -1 ELSE IF numA.v > numB.v THEN 1 ELSE 0)
    ELSE IF numA.t = numB.t THEN 0
    ELSE IF numA.t = "Infinity" \/ numB.t = "-Infinity" THEN 1
    ELSE -1

numericKeys == {"amount", "status", "remaining_amount", "total_running_weeks", "year"}
dateKeys == {"po_date", "date_completed"}

\* A fallback that is Infinity for both directions.
MissingValueAlwaysInfinity(direction) == PosInfinity
\* direction === 'asc' ? Infinity : -Infinity
MissingValue(direction) == IF direction = "asc" THEN PosInfinity ELSE NegInfinity

\* date ? date.getTime() : fallback, the time as a count of days: it orders
\* Dates as getTime() does.
getTime(date, fallback) ==
    IF date # JsNull THEN Num((date.y * 372) + (date.m * 31) + date.d) ELSE fallback
\* parseDate(value) of a field of a project.
parseDateValue(value) ==
    IF ~Truthy(value) THEN JsNull
    ELSE parseDate(Trim(ToStr(value)), DateConstructor(Trim(ToStr(value))))
\* The comparison of two strings of which the empty one goes last.
CompareText(valA, valB, sortMultiplier) ==
    IF valA = <<>> /\ valB # <<>> THEN 1
    ELSE IF valA # <<>> /\ valB = <<>> THEN -1
    ELSE IF valA = <<>> /\ valB = <<>> THEN 0
    ELSE IF StringLess(valA, valB) THEN -1 * sortMultiplier
    ELSE IF StringLess(valB, valA) THEN 1 * sortMultiplier
    ELSE 0
SortKeys == {"client", "status", "remaining_amount"}

\* The comparator handed to dataToRender.sort: the sign of what it returns.
CompareProjects(a, b, key, direction) ==
    LET sortMultiplier == IF direction = "asc" THEN 1 ELSE -1
        missing == MissingValue(direction)
    IN IF key = "latest_update"
       THEN CompareText(toLowerCase(IF Truthy(a[key]) THEN ToStr(a[key]) ELSE <<>>),
                        toLowerCase(IF Truthy(b[key]) THEN ToStr(b[key]) ELSE <<>>),
                        sortMultiplier)
       ELSE IF key \in dateKeys
       THEN SignOfDifference(getTime(parseDateValue(a[key]), missing),
                             getTime(parseDateValue(b[key]), missing))
                * sortMultiplier
       ELSE IF key \in numericKeys
       THEN SignOfDifference(safeFloat(a[key], missing), safeFloat(b[key], missing))
                * sortMultiplier
       ELSE CompareText(toLowerCase(IF a[key].t \in {"null", "undefined"} THEN <<>>
                                    ELSE ToStr(a[key])),
                        toLowerCase(IF b[key].t \in {"null", "undefined"} THEN <<>>
                                    ELSE ToStr(b[key])),
                        sortMultiplier)

\* Array.prototype.sort with that comparator: a stable sort.
InsertProject(sorted, x, key, direction) ==
    LET later == {i \in 1..Len(sorted) : CompareProjects(sorted[i], x, key, direction) > 0}
        at == IF later = {} THEN Len(sorted) + 1
              ELSE CHOOSE i \in later : \A j \in later : i <= j
    IN SubSeq(sorted, 1, at - 1) \o <<x>> \o SubSeq(sorted, at, Len(sorted))
RECURSIVE SortProjects(_, _, _)
SortProjects(data, key, direction) ==
    IF data = <<>> THEN <<>>
    ELSE InsertProject(SortProjects(SubSeq(data, 1, Len(data) - 1), key, direction),
                       data[Len(data)], key, direction)

NoOriginal == JsUndefined               \* no data-original-value attribute
\* The status cell of a row: its text, whether it holds the <input>, whether it
\* has the class editable-cell, and its data-original-value.
PlainCell(text) ==
    [text |-> text, input |-> FALSE, editable |-> TRUE, originalValue |-> NoOriginal]

LoadingRow == [kind |-> "loading"]
ErrorRow == [kind |-> "error"]
\* 'No ... projects found.'
EmptyRow == [kind |-> "empty", display |-> ""]
\* The <tr> renderProjectTable builds for one project.
DataRow(project) ==
    [kind |-> "data", id |-> project.id,
     client |-> IF project.client.t = "string" THEN project.client.s ELSE <<>>,
     status |-> PlainCell(formatPercent(project.status)),
     remaining |-> formatCurrency(project.remaining_amount),
     display |-> ""]

renderProjectTable(dataToRender) ==
    IF Len(dataToRender) = 0 THEN <<EmptyRow>>
    ELSE [i \in 1..Len(dataToRender) |-> DataRow(dataToRender[i])]

\* The rows renderActiveTable and renderCompletedTable put into their table.
renderSortedTable(data, sort) ==
    renderProjectTable(SortProjects(data, sort.key, sort.direction))

\* The keys a header can sort by: one or more of each branch of the comparator.
HeaderKeys == {"client", "latest_update", "po_date", "date_completed", "status",
               "remaining_amount"}
\* The values a project can have under a key: none, the empty string, text
\* that is no number and no date, and the values of two or three projects.
FieldValues(key) ==
    {JsNull, JsStr(<<>>)} \cup
    (IF key \in dateKeys
     THEN {JsStr(<<"N", "/", "A">>), JsStr(IsoString(2024, 2, 29)),
           JsStr(SlashString(2023, 12, 31))}
     ELSE IF key \in numericKeys
     THEN {JsStr(<<"N", "/", "A">>), Num(0), Num(8000), JsStr(<<Peso, "1", "5", "0">>)}
     ELSE {JsStr(<<"a">>), JsStr(<<"B">>), JsStr(<<"b", "c">>)})
\* A project of which only the id and the field sorted by are of interest.
ProjectWith(id, key, value) == [f \in {"id", key} |-> IF f = "id" THEN id ELSE value]
MaxProjects == 3
SortArrays(key) ==
    UNION {{[i \in 1..n |-> ProjectWith(i, key, values[i])] :
               values \in [1..n -> FieldValues(key)]} : n \in 2..MaxProjects}

NotSorted == <<[id |-> 0]>>
\* dataToRender.sort(...) of renderActiveTable or renderCompletedTable.
SortDataToRender ==
    /\ sortedData = NotSorted
    /\ sortedData' = SortProjects(sortArgs.data, sortArgs.key, sortArgs.direction)
    /\ UNCHANGED sortArgs

SortInit ==
    /\ \E key \in HeaderKeys, direction \in {"asc", "desc"} :
          \E data \in SortArrays(key) :
              sortArgs = [data |-> data, key |-> key, direction |-> direction]
    /\ sortedData = NotSorted
SortIdle == sortArgs = [data |-> <<>>] /\ sortedData = NotSorted

\* Example projects, as the API returns them.
Project(id, client, status, remaining) ==
    [id |-> id, client |-> client, status |-> status, remaining_amount |-> remaining]
P1 == Project(1, JsStr(<<"b">>), Num(2000), Num(80000))
P2 == Project(2, JsStr(<<"a", Comma, "c">>), Num(6000), Num(30000))
P3 == Project(3, JsNull, JsNull, JsNull)
Q1 == Project(4, JsStr(<<"B", Quote>>), Num(10000), Num(0))
Q2 == Project(5, JsStr(<<"a", Newline>>), Num(10000), Num(150000))
ActiveDataSets == {<<P1, P2>>, <<P3, P1>>}
CompletedDataSets == {<<Q1, Q2>>}

(***************************************************************************)
(* The feedback area: displayFeedback, clearFeedback and the auto-hide     *)
(* timers                                                                  *)
(***************************************************************************)
MaxTime == 10           \* the clock stops here
MaxFeedbackCalls == 3   \* displayFeedback calls in one run
AutoHideDelay == 7      \* setTimeout(..., 7000), in seconds

FeedbackMessages == {"Project updated!", "Please save or cancel the other edit first."}
FeedbackTypes == {"success", "warning"}

NoHide == [by |-> 0, shown |-> 0]

\* typeClasses[type] || typeClasses['info']
FeedbackClass(type) ==
    "feedback " \o
    (CASE type = "success" -> "feedback-success"
       [] type = "error" -> "feedback-error"
       [] type = "warning" -> "feedback-warning"
       [] OTHER -> "feedback-info")
    \o " p-3 rounded border mb-4"

\* The effect of clearFeedback() on the feedback div.
clearFeedback ==
    /\ fbText' = ""
    /\ fbDisplay' = "none"
    /\ fbClass' = "feedback"

\* displayFeedback(message, type): show the message, start the auto-hide timer.
DisplayFeedback(message, type) ==
    /\ fbCalls < MaxFeedbackCalls
    /\ fbCalls' = fbCalls + 1
    /\ fbText' = message
    /\ fbClass' = FeedbackClass(type)
    /\ fbDisplay' = "block"
    /\ fbTimers' = fbTimers \cup
          {[id |-> fbCalls + 1, message |-> message, due |-> now + AutoHideDelay]}
    /\ fbShownBy' = fbCalls + 1
    /\ UNCHANGED <<now, fbLastHide>>

\* The callback of the auto-hide timer t.
AutoHide(t) ==
    /\ t \in fbTimers
    /\ t.due <= now
    /\ \A u \in fbTimers : u.due <= now => t.id <= u.id
    /\ fbTimers' = fbTimers \ {t}
    /\ IF fbText = t.message
       THEN /\ clearFeedback
            /\ fbLastHide' = [by |-> t.id, shown |-> fbShownBy]
            /\ fbShownBy' = 0
       ELSE UNCHANGED <<fbText, fbDisplay, fbClass, fbLastHide, fbShownBy>>
    /\ UNCHANGED <<now, fbCalls>>

\* clearFeedback() called by a modal opening or a form submit.
ClearFeedback ==
    /\ fbText # ""
    /\ clearFeedback
    /\ fbShownBy' = 0
    /\ UNCHANGED <<fbTimers, now, fbCalls, fbLastHide>>

\* One second passes; a timer that is due runs before the clock moves on.
Tick ==
    /\ now < MaxTime
    /\ \A t \in fbTimers : t.due > now
    /\ now' = now + 1
    /\ UNCHANGED <<fbText, fbDisplay, fbClass, fbTimers, fbCalls, fbShownBy, fbLastHide>>

FbInit ==
    /\ fbText = ""
    /\ fbDisplay = "none"
    /\ fbClass = "feedback"
    /\ fbTimers = {}
    /\ now = 0
    /\ fbCalls = 0
    /\ fbShownBy = 0
    /\ fbLastHide = NoHide

FbIdle == FbInit

(***************************************************************************)
(* apiFetch                                                                *)
(***************************************************************************)
PROJECTS_API == "/api/projects"
DASHBOARD_API == "/api/dashboard"
Urls == {PROJECTS_API, DASHBOARD_API}

\* The bodies a server can send: a JSON document, plain text, or a stream
\* that breaks while it is read.
Bodies ==
    {[raw |-> "json", value |-> v] :
        v \in { JsNull, JsObj(Undef, Undef), JsObj("bad request", Undef),
                JsObj(Undef, "saved"), JsObj("", "try later") }}
        \cup {[raw |-> "text", text |-> s] : s \in {"", "Internal Server Error"}}
        \cup {[raw |-> "broken"]}
ContentTypes == {"application/json", "text/html", "none"}
Statuses == {200, 201, 204, 400, 401, 404, 500}
NetworkFailure == [net |-> TRUE]
Responses ==
    {NetworkFailure} \cup
    {[net |-> FALSE, status |-> s, ctype |-> c, body |-> b] :
        s \in Statuses, c \in ContentTypes, b \in Bodies}

\* response.ok
ResponseOk(resp) == resp.status >= 200 /\ resp.status <= 299

\* new Error(message), optionally with .status and .data attached
\* (status 0 stands for no status: !0 and !undefined are both true)
Error(msg) == [message |-> msg, status |-> 0, data |-> JsUndefined]
ErrorWith(msg, status, data) == [message |-> msg, status |-> status, data |-> data]
Throw(e) == [k |-> "throw", error |-> e]
Return(v) == [k |-> "return", value |-> v]

HttpErrorText(status) == "HTTP Error " \o ToString(status)
NetworkErrorText(url) ==
    "Network error or cannot connect to API at " \o url
        \o ". Ensure the backend server is running and accessible."

\* response.json()
ResponseJson(resp) ==
    IF resp.body.raw = "json" THEN Return(resp.body.value) ELSE Throw(Error("SyntaxError"))
\* response.text()
ResponseText(resp) ==
    CASE resp.body.raw = "json" -> Return("<json text>")
      [] resp.body.raw = "text" -> Return(resp.body.text)
      [] OTHER -> Throw(Error("TypeError: body stream"))

\* The inner try of apiFetch: read the body as JSON or as text.
ReadBodyTry(resp) ==
    IF resp.ctype = "application/json"
    THEN ResponseJson(resp)
    ELSE LET text == ResponseText(resp) IN
         IF text.k = "throw" THEN text
         ELSE IF ~ResponseOk(resp)
              THEN Throw(Error(IF text.value # "" THEN text.value
                                                  ELSE HttpErrorText(resp.status)))
              ELSE Return([t |-> "object", error |-> Undef,
                           message |-> "OK (" \o ToString(resp.status) \o ")"])

\* The inner try with its catch (bodyError).
ReadBody(resp) ==
    LET r == ReadBodyTry(resp) IN
    IF r.k = "return" THEN r
    ELSE IF ~ResponseOk(resp)
         THEN Throw(Error(HttpErrorText(resp.status) \o ", failed to read/parse body."))
         ELSE Return(JsObj(Undef, "OK (" \o ToString(resp.status)
                                      \o "), but error reading/parsing body."))

\* The outer try of apiFetch, from the fetch to the return.
TryBody(resp) ==
    IF resp.net THEN Throw(Error("Failed to fetch"))
    ELSE IF resp.status = 401 THEN Throw(Error("Unauthorized"))
    ELSE IF resp.status = 204
         THEN Return(JsObj(Undef, "Operation successful (No Content)."))
    ELSE LET body == ReadBody(resp) IN
         IF body.k = "throw" THEN body
         ELSE IF ~ResponseOk(resp)
              THEN LET data == body.value
                       msg == IF TruthyStr(OptError(data)) THEN OptError(data)
                              ELSE IF TruthyStr(OptMessage(data)) THEN OptMessage(data)
                              ELSE HttpErrorText(resp.status)
                   IN Throw(ErrorWith(msg, resp.status, data))
              ELSE body

\* A catch that replaces every error without status and data, Unauthorized too.
OuterCatchAnyError(url, error) ==
    IF error.status = 0 /\ ~Truthy(error.data)
    THEN Error(NetworkErrorText(url))
    ELSE error

\* The outer catch of apiFetch: the error that is finally thrown.
OuterCatch(url, error) ==
    IF error.status = 0 /\ ~Truthy(error.data) /\ error.message # "Unauthorized"
    THEN Error(NetworkErrorText(url))
    ELSE error

\* An apiFetch that returns whatever body it could read, ok or not.
apiFetchResultNoOkCheck(url, resp) ==
    LET r == IF resp.net \/ resp.status \in {401, 204} THEN TryBody(resp)
             ELSE ReadBody(resp)
    IN IF r.k = "throw"
       THEN [k |-> "reject", error |-> OuterCatch(url, r.error)]
       ELSE [k |-> "resolve", value |-> r.value]

\* The settlement of the promise apiFetch returns.
apiFetchResult(url, resp) ==
    LET r == TryBody(resp) IN
    IF r.k = "throw"
    THEN [k |-> "reject", error |-> OuterCatch(url, r.error)]
    ELSE [k |-> "resolve", value |-> r.value]

NoCall == [state |-> "none"]

\* One call of apiFetch, answered by resp.
ApiFetch(url, resp) ==
    /\ apiCall' = [state |-> "settled", url |-> url, resp |-> resp,
                   result |-> apiFetchResult(url, resp)]
    /\ IF ~resp.net /\ resp.status = 401
       THEN authToken' = FALSE /\ location' = "login.html"
       ELSE UNCHANGED <<authToken, location>>

\* The login page stores a token and returns to the dashboard.
Login ==
    /\ location = "login.html"
    /\ authToken' = TRUE
    /\ location' = "index.html"
    /\ apiCall' = NoCall

ApiInit ==
    /\ authToken \in BOOLEAN
    /\ location = "index.html"
    /\ apiCall = NoCall

ApiIdle == authToken = FALSE /\ location = "index.html" /\ apiCall = NoCall

(***************************************************************************)
(* The project tables: fetching, sort headers, inline status edit, export  *)
(***************************************************************************)
MaxInFlight == 1        \* requests of one kind in flight at a time

COMPLETED_PROJECTS_API == "/api/projects/completed"
UPDATE_PROJECT_API(projectId) == PROJECTS_API \o "/" \o ToString(projectId)

JsArray(items) == [t |-> "array", items |-> items]
JsonResponse(status, value) ==
    [net |-> FALSE, status |-> status, ctype |-> "application/json",
     body |-> [raw |-> "json", value |-> value]]
TextResponse(status, text) ==
    [net |-> FALSE, status |-> status, ctype |-> "text/html",
     body |-> [raw |-> "text", text |-> text]]
\* What the server can answer to a GET of a project list.
ListResponses(dataSets) ==
    {JsonResponse(200, JsArray(d)) : d \in dataSets}
        \cup {JsonResponse(200, JsNull), JsonResponse(401, JsObj("Unauthorized", Undef)),
              JsonResponse(500, JsObj("bad request", Undef))}
\* What the server can answer to the PUT of a status.
PutResponses(valueToSend) ==
    { JsonResponse(200, [t |-> "object", error |-> Undef, message |-> "saved",
                         updatedProject |-> [status |-> valueToSend,
                                            remaining_amount |-> Num(12000)]]),
      JsonResponse(200, JsObj(Undef, "saved")),
      JsonResponse(200, JsNull),
      JsonResponse(401, JsObj("Unauthorized", Undef)),
      JsonResponse(500, JsObj("bad request", Undef)),
      TextResponse(500, "Internal Server Error"),
      NetworkFailure }

NullCell == [cell |-> "null"]
NoEvent == [op |-> "none"]
Saving == <<"Saving...">>
WarnOtherEdit == "Please save or cancel the other edit first."
InvalidStatus == "Invalid Status value. Must be between 0 and 100."

\* The page runs until apiFetch has sent the browser to login.html.
PageOpen == location = "index.html"

\* A write to activeProjectsTableBody.innerHTML takes the old cells out of the
\* document: whoever holds one holds a detached cell from then on.
DetachedEditingCell ==
    IF currentlyEditingCell.cell = "attached"
    THEN [currentlyEditingCell EXCEPT !.cell = "detached"]
    ELSE currentlyEditingCell
DetachedPuts == [i \in 1..Len(puts) |-> [puts[i] EXCEPT !.attached = FALSE]]

\* The index of the row of activeRows that shows project id, 0 if none does.
RowOf(rows, id) ==
    IF \E i \in 1..Len(rows) : rows[i].kind = "data" /\ rows[i].id = id
    THEN CHOOSE i \in 1..Len(rows) : rows[i].kind = "data" /\ rows[i].id = id
    ELSE 0
\* array.findIndex(p => p.id == projectId), 0 for -1
FindIndex(data, id) ==
    IF \E i \in 1..Len(data) : data[i].id = id
    THEN CHOOSE i \in 1..Len(data) : data[i].id = id /\ \A j \in 1..(i - 1) : data[j].id # id
    ELSE 0

\* fetchActiveProjects up to its await: the loading row, the request.
FetchActiveProjects ==
    /\ PageOpen
    /\ activeFetches < MaxInFlight
    /\ activeFetches' = activeFetches + 1
    /\ activeRows' = <<LoadingRow>>
    /\ currentlyEditingCell' = DetachedEditingCell
    /\ puts' = DetachedPuts
    /\ lastEvent' = NoEvent
    /\ UNCHANGED <<currentProjectsData, currentCompletedProjectsData, currentSort,
                   completedRows, completedFetches, apiVars>>

\* fetchActiveProjects after its await, the request answered by resp.
FetchActiveProjectsDone(resp) ==
    LET r == apiFetchResult(PROJECTS_API, resp) IN
    /\ PageOpen
    /\ activeFetches > 0
    /\ activeFetches' = activeFetches - 1
    /\ lastEvent' = NoEvent
    /\ IF r.k = "resolve"
       THEN LET data == IF Truthy(r.value) THEN r.value.items ELSE <<>> IN
            /\ currentProjectsData' = data
            /\ activeRows' = renderSortedTable(data, currentSort)
            /\ currentlyEditingCell' = DetachedEditingCell
            /\ puts' = DetachedPuts
            /\ UNCHANGED <<authToken, location>>
       ELSE IF r.error.message # "Unauthorized"
       THEN /\ currentProjectsData' = <<>>
            /\ activeRows' = <<ErrorRow>>
            /\ currentlyEditingCell' = DetachedEditingCell
            /\ puts' = DetachedPuts
            /\ UNCHANGED <<authToken, location>>
       ELSE /\ authToken' = FALSE
            /\ location' = "login.html"
            /\ UNCHANGED <<currentProjectsData, activeRows, currentlyEditingCell, puts>>
    /\ UNCHANGED <<currentCompletedProjectsData, currentSort, completedRows,
                   completedFetches, apiCall>>

\* fetchCompletedProjects up to its await.
FetchCompletedProjects ==
    /\ PageOpen
    /\ completedFetches < MaxInFlight
    /\ completedFetches' = completedFetches + 1
    /\ completedRows' = <<LoadingRow>>
    /\ lastEvent' = NoEvent
    /\ UNCHANGED <<currentProjectsData, currentCompletedProjectsData, currentSort,
                   currentlyEditingCell, activeRows, activeFetches, puts, apiVars>>

\* fetchCompletedProjects after its await.
FetchCompletedProjectsDone(resp) ==
    LET r == apiFetchResult(COMPLETED_PROJECTS_API, resp) IN
    /\ PageOpen
    /\ completedFetches > 0
    /\ completedFetches' = completedFetches - 1
    /\ lastEvent' = NoEvent
    /\ IF r.k = "resolve"
       THEN LET data == IF Truthy(r.value) THEN r.value.items ELSE <<>> IN
            /\ currentCompletedProjectsData' = data
            /\ completedRows' = renderSortedTable(data, currentSort)
            /\ UNCHANGED <<authToken, location>>
       ELSE IF r.error.message # "Unauthorized"
       THEN /\ currentCompletedProjectsData' = <<>>
            /\ completedRows' = <<ErrorRow>>
            /\ UNCHANGED <<authToken, location>>
       ELSE /\ authToken' = FALSE
            /\ location' = "login.html"
            /\ UNCHANGED <<currentCompletedProjectsData, completedRows>>
    /\ UNCHANGED <<currentProjectsData, currentSort, currentlyEditingCell, activeRows,
                   activeFetches, puts, apiCall>>

\* A click listener that sorts ascending whatever the sort state was.
NextSortAlwaysAsc(sort, sortKey) == [key |-> sortKey, direction |-> "asc"]

\* The sort state after a click on the header with data-sort-key sortKey.
NextSort(sort, sortKey) ==
    [key |-> sortKey,
     direction |-> IF sort.key = sortKey
                   THEN (IF sort.direction = "asc" THEN "desc" ELSE "asc")
                   ELSE "asc"]

\* The click listener setupSortListeners puts on the thead of table tableId.
ClickSortHeader(tableId, sortKey) ==
    /\ PageOpen
    /\ currentSort' = NextSort(currentSort, sortKey)
    /\ lastEvent' = NoEvent
    /\ \E sort \in {NextSort(currentSort, sortKey)} :
          IF tableId = "active-project-table"
          THEN /\ activeRows' = renderSortedTable(currentProjectsData, sort)
               /\ currentlyEditingCell' = DetachedEditingCell
               /\ puts' = DetachedPuts
               /\ UNCHANGED completedRows
          ELSE /\ completedRows' = renderSortedTable(currentCompletedProjectsData, sort)
               /\ UNCHANGED <<activeRows, currentlyEditingCell, puts>>
    /\ UNCHANGED <<currentProjectsData, currentCompletedProjectsData, activeFetches,
                   completedFetches, apiVars>>

\* Whether currentlyEditingCell is the status cell of row i of the active table.
IsEditingRow(i) ==
    currentlyEditingCell.cell = "attached" /\ currentlyEditingCell.projectId = activeRows[i].id

\* A makeCellEditable that does not look at currentlyEditingCell.
makeCellEditableNoLock(i) ==
    LET cell == activeRows[i].status
        originalDisplayValue == Trim(cell.text)
    IN
    /\ PageOpen
    /\ i \in 1..Len(activeRows)
    /\ activeRows[i].kind = "data"
    /\ cell.editable
    /\ ~cell.input
    /\ currentlyEditingCell' =
          [cell |-> "attached", projectId |-> activeRows[i].id,
           originalDisplayValue |-> originalDisplayValue,
           originalNumericValue |-> safeFloat(JsStr(originalDisplayValue), Num(0))]
    /\ activeRows' = [activeRows EXCEPT ![i].status =
          [text |-> <<>>, input |-> TRUE, editable |-> TRUE,
           originalValue |-> JsStr(originalDisplayValue)]]
    /\ lastEvent' = NoEvent
    /\ UNCHANGED <<currentProjectsData, currentCompletedProjectsData, currentSort,
                   completedRows, activeFetches, completedFetches, puts, apiVars>>

\* makeCellEditable(cell), called by a double click on the status cell of row i
\* of the active table (a cell with the class editable-cell).
makeCellEditable(i) ==
    LET cell == activeRows[i].status
        originalDisplayValue == Trim(cell.text)
    IN
    /\ PageOpen
    /\ i \in 1..Len(activeRows)
    /\ activeRows[i].kind = "data"
    /\ cell.editable
    /\ IF currentlyEditingCell.cell # "null" /\ ~IsEditingRow(i)
       THEN /\ lastEvent' = [op |-> "makeCellEditable", feedback |-> WarnOtherEdit]
            /\ UNCHANGED <<currentlyEditingCell, activeRows>>
       ELSE IF IsEditingRow(i)
       THEN /\ lastEvent' = NoEvent
            /\ UNCHANGED <<currentlyEditingCell, activeRows>>
       ELSE /\ currentlyEditingCell' =
                  [cell |-> "attached", projectId |-> activeRows[i].id,
                   originalDisplayValue |-> originalDisplayValue,
                   originalNumericValue |-> safeFloat(JsStr(originalDisplayValue), Num(0))]
            /\ activeRows' = [activeRows EXCEPT ![i].status =
                  [text |-> <<>>, input |-> TRUE, editable |-> TRUE,
                   originalValue |-> JsStr(originalDisplayValue)]]
            /\ lastEvent' = NoEvent
    /\ UNCHANGED <<currentProjectsData, currentCompletedProjectsData, currentSort,
                   completedRows, activeFetches, completedFetches, puts, apiVars>>

\* activeRows with the status cell of the edited project replaced, if the cell
\* is still in the document.
WithEditedCell(attached, projectId, cell) ==
    LET i == RowOf(activeRows, projectId) IN
    IF attached /\ i # 0 THEN [activeRows EXCEPT ![i].status = cell] ELSE activeRows

\* What the input holds when the edit ends: '' (an <input type="number"> reads
\* so when its text is no number), 150, 75, or, for "keep", the value it was
\* opened with.
InputTexts == {<<>>, <<"1", "5", "0">>, <<"7", "5">>, <<"keep">>}

\* saveEdit(input, cell, projectId, 'status', originalValue), called by Enter or
\* by the blur timer while the cell is the one edited.
saveEdit(typed) ==
    LET cur == currentlyEditingCell
        attached == cur.cell = "attached"
        originalValue == cur.originalNumericValue
        newValue == Trim(IF typed = <<"keep">> THEN ToStr(originalValue) ELSE typed)
        numericValue == safeFloat(JsStr(newValue), NaN)
        invalid == numericValue = NaN \/ numericValue.v < 0 \/ numericValue.v > 10000
        displayValue == formatPercent(numericValue)
        changed == RoundToTenth(numericValue.v) # RoundToTenth(originalValue.v)
        restored(text) == [text |-> text, input |-> FALSE, editable |-> TRUE,
                           originalValue |-> JsStr(cur.originalDisplayValue)]
    IN
    /\ PageOpen
    /\ cur.cell # "null"
    /\ Len(puts) < MaxInFlight
    /\ currentlyEditingCell' = NullCell
    /\ IF invalid
       THEN /\ activeRows' = WithEditedCell(attached, cur.projectId,
                                            restored(formatPercent(originalValue)))
            /\ puts' = puts
            /\ lastEvent' = [op |-> "saveEdit", feedback |-> InvalidStatus]
       ELSE IF ~changed
       THEN /\ activeRows' = WithEditedCell(attached, cur.projectId, restored(displayValue))
            /\ puts' = puts
            /\ lastEvent' = NoEvent
       ELSE /\ activeRows' = WithEditedCell(attached, cur.projectId,
                                [restored(Saving) EXCEPT !.editable = FALSE])
            /\ puts' = Append(puts,
                  [projectId |-> cur.projectId, attached |-> attached,
                   valueToSend |-> numericValue, displayValue |-> displayValue,
                   originalValue |-> originalValue,
                   originalDisplayValue |-> cur.originalDisplayValue])
            /\ lastEvent' = NoEvent
    /\ UNCHANGED <<currentProjectsData, currentCompletedProjectsData, currentSort,
                   completedRows, activeFetches, completedFetches, apiVars>>

\* cancelEdit(input, cell, originalDisplayValue), called by Escape.
cancelEdit ==
    LET cur == currentlyEditingCell IN
    /\ PageOpen
    /\ cur.cell # "null"
    /\ activeRows' = WithEditedCell(cur.cell = "attached", cur.projectId,
                                    PlainCell(cur.originalDisplayValue))
    /\ currentlyEditingCell' = NullCell
    /\ lastEvent' = NoEvent
    /\ UNCHANGED <<currentProjectsData, currentCompletedProjectsData, currentSort,
                   completedRows, activeFetches, completedFetches, puts, apiVars>>

\* The tail of saveEdit: the PUT of puts[n] is answered by resp.
saveEditDone(n, resp) ==
    \E put \in {puts[n]} :
    \E r \in {apiFetchResult(UPDATE_PROJECT_API(put.projectId), resp)} :
    LET result == r.value
        \* result.updatedProject throws a TypeError when result is null
        typeError == r.k = "resolve" /\ result.t = "null"
        updated == r.k = "resolve" /\ ~typeError
                     /\ "updatedProject" \in DOMAIN result
        projectIndexActive == FindIndex(currentProjectsData, put.projectId)
        projectIndexCompleted == FindIndex(currentCompletedProjectsData, put.projectId)
        refetch == r.k = "resolve" /\ ~typeError
                     /\ (updated => projectIndexActive = 0 /\ projectIndexCompleted = 0)
        unauthorized == r.k = "reject" /\ r.error.message = "Unauthorized"
        caught == typeError \/ (r.k = "reject" /\ ~unauthorized)
        text == IF caught THEN formatPercent(put.originalValue)
                ELSE IF unauthorized THEN Saving
                ELSE put.displayValue
        cell == [text |-> text, input |-> FALSE, editable |-> TRUE,
                 originalValue |-> JsStr(put.originalDisplayValue)]
        i == RowOf(activeRows, put.projectId)
        merged(project) == [project EXCEPT !.status = result.updatedProject.status,
                              !.remaining_amount = result.updatedProject.remaining_amount]
    IN
    /\ PageOpen
    /\ n \in 1..Len(puts)
    /\ resp \in PutResponses(put.valueToSend)
    /\ refetch => activeFetches < MaxInFlight /\ completedFetches < MaxInFlight
    /\ puts' = IF refetch
               THEN [k \in 1..(Len(puts) - 1) |->
                        [(IF k < n THEN puts[k] ELSE puts[k + 1]) EXCEPT !.attached = FALSE]]
               ELSE [k \in 1..(Len(puts) - 1) |-> IF k < n THEN puts[k] ELSE puts[k + 1]]
    /\ currentProjectsData' =
          IF updated /\ ~typeError /\ projectIndexActive > 0
          THEN [currentProjectsData EXCEPT
                   ![projectIndexActive] = merged(currentProjectsData[projectIndexActive])]
          ELSE currentProjectsData
    /\ currentCompletedProjectsData' =
          IF updated /\ ~typeError /\ projectIndexActive = 0 /\ projectIndexCompleted > 0
          THEN [currentCompletedProjectsData EXCEPT
                   ![projectIndexCompleted] =
                       merged(currentCompletedProjectsData[projectIndexCompleted])]
          ELSE currentCompletedProjectsData
    /\ activeRows' =
          IF refetch THEN <<LoadingRow>>
          ELSE IF put.attached /\ i # 0
          THEN [activeRows EXCEPT
                   ![i].status = cell,
                   ![i].remaining =
                       IF updated THEN formatCurrency(result.updatedProject.remaining_amount)
                       ELSE @]
          ELSE activeRows
    /\ completedRows' = IF refetch THEN <<LoadingRow>> ELSE completedRows
    /\ activeFetches' = IF refetch THEN activeFetches + 1 ELSE activeFetches
    /\ completedFetches' = IF refetch THEN completedFetches + 1 ELSE completedFetches
    /\ currentlyEditingCell' = IF refetch THEN DetachedEditingCell ELSE currentlyEditingCell
    /\ IF unauthorized
       THEN authToken' = FALSE /\ location' = "login.html"
       ELSE UNCHANGED <<authToken, location>>
    /\ lastEvent' =
          [op |-> "saveEditDone", settled |-> r.k, cellText |-> text,
           displayValue |-> put.displayValue,
           originalDisplayValue |-> put.originalDisplayValue]
    /\ UNCHANGED <<currentSort, apiCall>>

\* The header row of the export.
CsvHeaders ==
    << <<"BS">>, <<"Year">>, <<"Project #">>, <<"Client">>, <<"Project Name">>,
       <<"Amount">>, <<"Status (%)">>, <<"Remaining">>, <<"Weeks">>, <<"PO Date">>,
       <<"PO No.">>, <<"Date Completed">>, <<"PIC">>, <<"Latest Update">>, <<"Address">> >>
BOM == "<BOM>"                          \* U+FEFF
Empty == JsStr(<<>>)

\* array.join(sep)
RECURSIVE Join(_, _)
Join(parts, sep) ==
    IF parts = <<>> THEN <<>>
    ELSE IF Len(parts) = 1 THEN parts[1]
    ELSE parts[1] \o <<sep>> \o Join(Tail(parts), sep)

\* project.field ?? ''
OrEmpty(project, f) ==
    IF f \in DOMAIN project /\ project[f].t \notin {"null", "undefined"}
    THEN project[f] ELSE Empty
\* safeFloat(project.field, '')
FloatOrEmpty(project, f) ==
    safeFloat(IF f \in DOMAIN project THEN project[f] ELSE JsUndefined, Empty)

\* The values of the export row of one project (formatDate(undefined, '') is
\* '': the projects of the model have no dates).
CsvRow(project) ==
    << OrEmpty(project, "ds"), OrEmpty(project, "year"), OrEmpty(project, "project_no"),
       OrEmpty(project, "client"), OrEmpty(project, "project_name"),
       FloatOrEmpty(project, "amount"), FloatOrEmpty(project, "status"),
       FloatOrEmpty(project, "remaining_amount"), OrEmpty(project, "total_running_weeks"),
       Empty, OrEmpty(project, "po_no"), Empty, OrEmpty(project, "pic"),
       OrEmpty(project, "latest_update"), OrEmpty(project, "address") >>
CsvLine(values) == Join([i \in 1..Len(values) |-> formatCsvCell(values[i])], Comma)

\* The text exportToCSV puts into the Blob.
CsvBlob(dataToExport) ==
    <<BOM>> \o Join(<<CsvLine([i \in 1..Len(CsvHeaders) |-> JsStr(CsvHeaders[i])])>>
                        \o [i \in 1..Len(dataToExport) |-> CsvLine(CsvRow(dataToExport[i]))],
                    Newline)

\* What the browser offers for the download.
Browsers == {"download", "msSaveBlob", "none"}

\* An export of the rows in the order the table shows them.
ExportDataAsDisplayed(tableId) ==
    IF tableId = "active-project-table"
    THEN SortProjects(currentProjectsData, currentSort.key, currentSort.direction)
    ELSE SortProjects(currentCompletedProjectsData, currentSort.key, currentSort.direction)

\* The array exportActiveToCSV and exportCompletedToCSV hand to exportToCSV.
ExportData(tableId) ==
    IF tableId = "active-project-table" THEN currentProjectsData
    ELSE currentCompletedProjectsData

FilenamePrefix(tableId) ==
    IF tableId = "active-project-table" THEN "Active_Projects" ELSE "Completed_Projects"
NoDataWarning(prefix) == "No data available to export for " \o prefix \o "."

\* exportToCSV(dataToExport, filenamePrefix), called by an export button.
exportToCSV(tableId, browser) ==
    LET dataToExport == ExportData(tableId)
        filenamePrefix == FilenamePrefix(tableId)
    IN
    /\ PageOpen
    /\ lastEvent' =
          IF Len(dataToExport) = 0
          THEN [op |-> "exportToCSV", table |-> tableId, blob |-> FALSE,
                download |-> FALSE,
                feedback |-> NoDataWarning(filenamePrefix), type |-> "warning"]
          ELSE [op |-> "exportToCSV", table |-> tableId, blob |-> TRUE,
                content |-> CsvBlob(dataToExport), prefix |-> filenamePrefix,
                download |-> browser # "none",
                feedback |-> IF browser = "none"
                             THEN "CSV export is not fully supported by your browser."
                             ELSE "",
                type |-> IF browser = "none" THEN "error" ELSE ""]
    /\ UNCHANGED <<currentProjectsData, currentCompletedProjectsData, currentSort,
                   currentlyEditingCell, activeRows, completedRows, activeFetches,
                   completedFetches, puts, apiVars>>

Tables == {"active-project-table", "completed-project-table"}
DefaultSort == [key |-> "remaining_amount", direction |-> "desc"]

\* currentCellText.includes(filterText)
Includes(text, filterText) ==
    \E i \in 0..(Len(text) - Len(filterText)) :
        SubSeq(text, i + 1, i + Len(filterText)) = filterText

\* The texts of the cells of a row that are no action column: of a project
\* row the client, the status, the remaining amount, and what the cells of
\* the fields the projects of the model do not have show.
CellTexts(row) ==
    IF row.kind = "data"
    THEN <<row.client, row.status.text, row.remaining, NotAvailable,
           formatCurrency(JsUndefined)>>
    ELSE <<<<"No projects found.">>>>

\* What the keyup listener of filterTable does to one row.
FilterRow(row, filterText) ==
    IF row.kind \in {"loading", "error"} THEN row
    ELSE [row EXCEPT !.display =
              IF \E j \in 1..Len(CellTexts(row)) :
                     Includes(toLowerCase(CellTexts(row)[j]), filterText)
              THEN "" ELSE "none"]

\* What the user can have typed into a filter input.
FilterInputTexts == {<<>>, <<"B">>}

\* The keyup listener filterTable puts on the filter input of table tableId,
\* the input holding text.
KeyUp(tableId, text) ==
    /\ PageOpen
    /\ filterInputs' = [filterInputs EXCEPT ![tableId] = text]
    /\ lastEvent' = NoEvent
    /\ IF tableId = "active-project-table"
       THEN /\ activeRows' = [i \in 1..Len(activeRows) |->
                                 FilterRow(activeRows[i], toLowerCase(text))]
            /\ UNCHANGED completedRows
       ELSE /\ completedRows' = [i \in 1..Len(completedRows) |->
                                    FilterRow(completedRows[i], toLowerCase(text))]
            /\ UNCHANGED activeRows
    /\ UNCHANGED <<currentProjectsData, currentCompletedProjectsData, currentSort,
                   currentlyEditingCell, activeFetches, completedFetches, puts, apiVars>>

\* The filter inputs are empty when the page opens.
FilterIdle == filterInputs = [tableId \in Tables |-> <<>>]

\* The dashboard once DOMContentLoaded has run: the first fetch of the active
\* projects is in flight.
UiInit ==
    /\ currentProjectsData = <<>>
    /\ currentCompletedProjectsData = <<>>
    /\ currentSort = DefaultSort
    /\ currentlyEditingCell = NullCell
    /\ activeRows = <<LoadingRow>>
    /\ completedRows = <<>>
    /\ activeFetches = 1
    /\ completedFetches = 0
    /\ puts = <<>>
    /\ lastEvent = NoEvent

UiIdle ==
    /\ currentProjectsData = <<>>
    /\ currentCompletedProjectsData = <<>>
    /\ currentSort = DefaultSort
    /\ currentlyEditingCell = NullCell
    /\ activeRows = <<>>
    /\ completedRows = <<>>
    /\ activeFetches = 0
    /\ completedFetches = 0
    /\ puts = <<>>
    /\ lastEvent = NoEvent

(***************************************************************************)
(* The MRF items log: fetchMrfLog, displayMrfLog, deleteMrfItem, the        *)
(* editable cells and saveEditedMrfItem                                     *)
(***************************************************************************)
MaxMrfActions == 2      \* deletes and cell saves the user makes

\* MRF items as GET /api/mrfs lists them; '' stands for a part_no that is null.
MrfItem(id, formNo, partNo) == [id |-> id, form_no |-> formNo, part_no |-> partNo]
I1 == MrfItem(1, "MRF-1", "P-1")
I2 == MrfItem(2, "MRF-2", "")

\* What the server can answer to GET /api/mrfs.
MrfListResponses ==
    {JsonResponse(200, JsArray(d)) : d \in {<<I1, I2>>, <<>>}}
        \cup {JsonResponse(200, JsNull), JsonResponse(200, JsObj(Undef, "ok")),
              TextResponse(200, "<html>"), JsonResponse(500, JsObj("db down", Undef)),
              JsonResponse(500, JsObj(Undef, Undef)), TextResponse(502, "Bad Gateway"),
              NetworkFailure}
\* What the server can answer to a DELETE or a PUT of an item.
MrfWriteResponses ==
    {JsonResponse(200, JsObj(Undef, "ok")), JsonResponse(404, JsObj("not found", Undef)),
     JsonResponse(500, JsObj(Undef, Undef)), JsonResponse(500, JsNull),
     TextResponse(502, "Bad Gateway"), NetworkFailure}

\* The request got no answer with an OK status.
RequestFailed(resp) == resp.net \/ ~ResponseOk(resp)

MrfCell(text) == [text |-> text, input |-> FALSE]
MrfErrorRow(text) == [kind |-> "error", text |-> text]
MrfEmptyRow == [kind |-> "empty"]       \* 'No MRF item records found.'
\* The row displayMrfLog builds for one item, its part_no cell editable.
MrfRow(item) ==
    [kind |-> "item", id |-> item.id, form_no |-> item.form_no,
     part_no |-> MrfCell(IF item.part_no # "" THEN item.part_no ELSE "N/A"),
     value |-> item.part_no]

\* displayMrfLog(mrfItems): the rows it leaves in the table, or the TypeError
\* of forEach on a value that is no array.
displayMrfLog(mrfItems) ==
    IF ~Truthy(mrfItems) \/ (mrfItems.t = "array" /\ Len(mrfItems.items) = 0)
    THEN Return(<<MrfEmptyRow>>)
    ELSE IF mrfItems.t = "array"
    THEN Return([i \in 1..Len(mrfItems.items) |-> MrfRow(mrfItems.items[i])])
    ELSE Throw(Error("mrfItems.forEach is not a function"))

\* errorData.error || fallback, a TypeError when errorData is null
ErrorOf(errorData, fallback) ==
    IF errorData.t = "null" THEN Throw(Error("Cannot read properties of null"))
    ELSE Throw(Error(IF TruthyStr(OptError(errorData)) THEN OptError(errorData)
                     ELSE fallback))

\* The try block of fetchMrfLog, the request answered by resp.
fetchMrfLogTry(resp) ==
    IF resp.net THEN Throw(Error("Failed to fetch"))
    ELSE IF ~ResponseOk(resp)
    THEN LET json == ResponseJson(resp)
             errorData ==
                IF json.k = "throw"
                THEN JsObj("Failed to fetch MRF log. Server returned "
                               \o ToString(resp.status), Undef)
                ELSE json.value
         IN ErrorOf(errorData, "HTTP error! status: " \o ToString(resp.status))
    ELSE LET json == ResponseJson(resp) IN
         IF json.k = "throw" THEN json ELSE displayMrfLog(json.value)

\* The try block of deleteMrfItem and of saveEditedMrfItem after the fetch.
MrfWriteTry(resp, fallback) ==
    IF resp.net THEN Throw(Error("Failed to fetch"))
    ELSE IF ~ResponseOk(resp)
    THEN LET json == ResponseJson(resp) IN
         IF json.k = "throw" THEN json ELSE ErrorOf(json.value, fallback)
    ELSE Return(JsUndefined)

NoMrfEvent == [op |-> "none"]
GetRequest == [method |-> "GET"]
\* A write to mrfLogTableBody.innerHTML takes the cells out of the document.
DetachedMrfRequests(requests) ==
    [k \in 1..Len(requests) |->
        IF requests[k].method = "PUT" THEN [requests[k] EXCEPT !.attached = FALSE]
        ELSE requests[k]]
WithoutRequest(requests, n) ==
    [k \in 1..(Len(requests) - 1) |-> IF k < n THEN requests[k] ELSE requests[k + 1]]

\* The start of fetchMrfLog: the indicator, the cleared table, the request.
fetchMrfLog(requests) ==
    /\ mrfLoading' = TRUE
    /\ mrfErrorDisplay' = ""
    /\ mrfRows' = <<>>
    /\ mrfRequests' = Append(DetachedMrfRequests(requests), GetRequest)

\* fetchMrfLog after its await: the GET mrfRequests[n] is answered by resp.
FetchMrfLogDone(n, resp) ==
    LET r == fetchMrfLogTry(resp)
        \* displayMrfLog was called and has cleared the table
        cleared == ~RequestFailed(resp) /\ ResponseJson(resp).k = "return"
        shown == IF r.k = "throw" THEN "Error loading MRF log: " \o r.error.message ELSE ""
    IN
    /\ n \in 1..Len(mrfRequests)
    /\ mrfRequests[n].method = "GET"
    /\ mrfRows' = IF r.k = "return" THEN r.value
                  ELSE Append(IF cleared THEN <<>> ELSE mrfRows,
                              MrfErrorRow("Error loading data: " \o r.error.message))
    /\ mrfErrorDisplay' = IF r.k = "throw" THEN shown ELSE mrfErrorDisplay
    /\ mrfLoading' = FALSE
    /\ mrfRequests' = IF cleared THEN DetachedMrfRequests(WithoutRequest(mrfRequests, n))
                      ELSE WithoutRequest(mrfRequests, n)
    /\ mrfLast' = [op |-> "fetchMrfLog", failed |-> RequestFailed(resp),
                   caught |-> r.k = "throw", shown |-> shown, sent |-> 0]
    /\ UNCHANGED <<mrfAlert, mrfActions>>

\* The Delete button of row i, its confirm answered with OK: deleteMrfItem up
\* to its await.
ClickDelete(i) ==
    /\ i \in 1..Len(mrfRows)
    /\ mrfRows[i].kind = "item"
    /\ mrfActions < MaxMrfActions
    /\ mrfActions' = mrfActions + 1
    /\ mrfRequests' = Append(mrfRequests, [method |-> "DELETE", id |-> mrfRows[i].id,
                                           form_no |-> mrfRows[i].form_no])
    /\ mrfLast' = NoMrfEvent
    /\ UNCHANGED <<mrfRows, mrfErrorDisplay, mrfLoading, mrfAlert>>

\* A deleteMrfItem that refreshes the table whatever the answer was.
deleteMrfItemResultAlwaysRefresh(formNo, resp) ==
    LET r == MrfWriteTry(resp, "Failed to delete item") IN
    IF r.k = "throw"
    THEN [caught |-> TRUE, alert |-> "Failed to delete item: " \o r.error.message,
          refresh |-> TRUE]
    ELSE [caught |-> FALSE, alert |-> "MRF item " \o formNo \o " deleted successfully!",
          refresh |-> TRUE]

\* deleteMrfItem after its await: what it alerts and whether it calls
\* fetchMrfLog.
deleteMrfItemResult(formNo, resp) ==
    LET r == MrfWriteTry(resp, "Failed to delete item") IN
    IF r.k = "throw"
    THEN [caught |-> TRUE, alert |-> "Failed to delete item: " \o r.error.message,
          refresh |-> FALSE]
    ELSE [caught |-> FALSE, alert |-> "MRF item " \o formNo \o " deleted successfully!",
          refresh |-> TRUE]

\* The DELETE mrfRequests[n] is answered by resp.
DeleteMrfItemDone(n, resp) ==
    /\ n \in 1..Len(mrfRequests)
    /\ mrfRequests[n].method = "DELETE"
    /\ \E out \in {deleteMrfItemResult(mrfRequests[n].form_no, resp)} :
          /\ mrfAlert' = out.alert
          /\ IF out.refresh
             THEN fetchMrfLog(WithoutRequest(mrfRequests, n))
             ELSE /\ mrfRequests' = WithoutRequest(mrfRequests, n)
                  /\ UNCHANGED <<mrfRows, mrfErrorDisplay, mrfLoading>>
          /\ mrfLast' = [op |-> "deleteMrfItem", failed |-> RequestFailed(resp),
                         caught |-> out.caught,
                         shown |-> IF out.caught THEN out.alert ELSE "",
                         sent |-> Len(mrfRequests') - (Len(mrfRequests) - 1)]
    /\ UNCHANGED mrfActions

\* The click listener setupEditableCell puts on the part_no cell of row i: the
\* input takes the place of the text (before keeps the text for the record).
ClickCell(i) ==
    /\ i \in 1..Len(mrfRows)
    /\ mrfRows[i].kind = "item"
    /\ ~mrfRows[i].part_no.input
    /\ mrfRows' = [mrfRows EXCEPT ![i].part_no =
                       [text |-> "", input |-> TRUE, before |-> mrfRows[i].part_no.text]]
    /\ mrfLast' = NoMrfEvent
    /\ UNCHANGED <<mrfErrorDisplay, mrfLoading, mrfAlert, mrfRequests, mrfActions>>

\* What the input of a part_no cell can hold when it loses the focus.
MrfInputs == {"", "P-1", "P-9"}

\* saveEditedMrfItem(cellElement, newValue) up to its await, called by the blur
\* of the input in the part_no cell of row i.
saveEditedMrfItem(i, newValue) ==
    LET cellElement == mrfRows[i].part_no
        originalValue == cellElement.text
        displayValue == newValue
    IN
    /\ i \in 1..Len(mrfRows)
    /\ mrfRows[i].kind = "item"
    /\ cellElement.input
    /\ mrfLast' = NoMrfEvent
    /\ IF newValue = originalValue \/ (newValue = "" /\ originalValue = "N/A")
       THEN /\ mrfRows' = [mrfRows EXCEPT ![i].part_no = MrfCell(originalValue)]
            /\ UNCHANGED <<mrfRequests, mrfActions>>
       ELSE /\ mrfActions < MaxMrfActions
            /\ mrfActions' = mrfActions + 1
            /\ mrfRequests' = Append(mrfRequests,
                  [method |-> "PUT", id |-> mrfRows[i].id, attached |-> TRUE,
                   displayValue |-> displayValue, originalValue |-> originalValue,
                   before |-> cellElement.before])
            /\ UNCHANGED mrfRows
    /\ UNCHANGED <<mrfErrorDisplay, mrfLoading, mrfAlert>>

MrfRowOf(rows, id) ==
    IF \E i \in 1..Len(rows) : rows[i].kind = "item" /\ rows[i].id = id
    THEN CHOOSE i \in 1..Len(rows) : rows[i].kind = "item" /\ rows[i].id = id
    ELSE 0

\* saveEditedMrfItem after its await: the PUT mrfRequests[n] is answered by resp.
SaveEditedMrfItemDone(n, resp) ==
    /\ n \in 1..Len(mrfRequests)
    /\ mrfRequests[n].method = "PUT"
    /\ \E request \in {mrfRequests[n]} :
       \E r \in {MrfWriteTry(resp, "Failed to update item")} :
          LET text == IF r.k = "throw" THEN request.originalValue
                      ELSE request.displayValue
              shown == IF r.k = "throw"
                       THEN "Failed to save changes: " \o r.error.message ELSE ""
              i == MrfRowOf(mrfRows, request.id)
          IN
          /\ mrfRows' = IF request.attached /\ i # 0
                        THEN [mrfRows EXCEPT ![i].part_no = MrfCell(text)]
                        ELSE mrfRows
          /\ mrfAlert' = IF r.k = "throw" THEN shown ELSE mrfAlert
          /\ mrfLast' = [op |-> "saveEditedMrfItem", failed |-> RequestFailed(resp),
                         caught |-> r.k = "throw", shown |-> shown, sent |-> 0,
                         cellText |-> text, before |-> request.before]
    /\ mrfRequests' = WithoutRequest(mrfRequests, n)
    /\ UNCHANGED <<mrfErrorDisplay, mrfLoading, mrfActions>>

\* The functions an inline handler of the page can call: the ones script.js
\* declares at its top level.  mrf_items_log.js declares all of its functions
\* inside its DOMContentLoaded listener, so it adds none.
GlobalFunctions ==
    {"getElement", "displayFeedback", "clearFeedback", "safe_int", "safeFloat",
     "formatCurrency", "formatPercent", "parseDate", "formatDate", "formatCsvCell",
     "apiFetch", "fetchDashboardData", "fetchActiveProjects", "fetchCompletedProjects",
     "fetchProjectUpdates", "fetchUserInfo", "handleLogout", "updateDashboardMetrics",
     "populateUpdatesList", "renderProjectTable", "renderActiveTable",
     "renderCompletedTable", "applyFiltersAndRender", "openAddProjectModal",
     "openEditModal", "openProjectDetailsModal", "openForecastModal",
     "closeForecastModal", "handleAddProjectSubmit", "handleEditSubmit",
     "handleAddUpdateSubmit", "handleAddForecastSubmit", "handleCsvUpload",
     "handleTableAction", "deleteProject", "toggleUpdateCompletion", "deleteUpdate",
     "makeCellEditable", "saveEdit", "cancelEdit", "exportToCSV", "exportActiveToCSV",
     "exportCompletedToCSV", "toggleNavigation", "toggleSettingsSubmenu",
     "toggleTheme", "applyInitialNavState", "applyInitialTheme",
     "setupCollapsibleSections", "filterTable"}

\* The call an inline handler such as onclick="applyFilters()" makes.
InlineCall(name) == IF name \in GlobalFunctions THEN "called" ELSE "ReferenceError"

\* What the user has in the Form No. filter input when clicking.
FilterTexts == {"", "MRF-1", "MRF-2"}

\* 'Apply Filters' is clicked with formNo in the Form No. filter and no other
\* filter set.  The handler throws before anything touches the table.
ClickApplyFilters(formNo) ==
    /\ InlineCall("applyFilters") = "ReferenceError"
    /\ mrfLast' = [op |-> "applyFilters", formNo |-> formNo,
                   thrown |-> InlineCall("applyFilters")]
    /\ UNCHANGED <<mrfRows, mrfErrorDisplay, mrfLoading, mrfAlert, mrfRequests, mrfActions>>

\* 'Reset Filters' is clicked.
ClickResetFilters ==
    /\ InlineCall("resetFilters") = "ReferenceError"
    /\ mrfLast' = [op |-> "resetFilters", thrown |-> InlineCall("resetFilters")]
    /\ UNCHANGED <<mrfRows, mrfErrorDisplay, mrfLoading, mrfAlert, mrfRequests, mrfActions>>

\* The page once DOMContentLoaded has run: the initial fetchMrfLog is waiting
\* for its answer.
MrfInit ==
    /\ mrfRows = <<>>
    /\ mrfErrorDisplay = ""
    /\ mrfLoading = TRUE
    /\ mrfAlert = ""
    /\ mrfRequests = <<GetRequest>>
    /\ mrfActions = 0
    /\ mrfLast = NoMrfEvent

MrfIdle ==
    /\ mrfRows = <<>>
    /\ mrfErrorDisplay = ""
    /\ mrfLoading = FALSE
    /\ mrfAlert = ""
    /\ mrfRequests = <<>>
    /\ mrfActions = 0
    /\ mrfLast = NoMrfEvent

(***************************************************************************)
(* Specifications: each one runs one part of the front end and holds the   *)
(* others still.                                                           *)
(***************************************************************************)
ApiNext ==
    \/ \E url \in Urls, resp \in Responses : ApiFetch(url, resp) /\ UNCHANGED <<fbVars, csvVars, uiVars, mrfVars, dateVars, sortVars, filterVars>>
    \/ Login /\ UNCHANGED <<fbVars, csvVars, uiVars, mrfVars, dateVars, sortVars, filterVars>>

InitApi == ApiInit /\ FbIdle /\ CsvIdle /\ UiIdle /\ MrfIdle /\ DateIdle /\ SortIdle /\ FilterIdle
SpecApi == InitApi /\ [][ApiNext]_vars

FbNext ==
    \/ \E m \in FeedbackMessages, ty \in FeedbackTypes :
          DisplayFeedback(m, ty) /\ UNCHANGED <<apiVars, csvVars, uiVars, mrfVars, dateVars, sortVars, filterVars>>
    \/ \E t \in fbTimers : AutoHide(t) /\ UNCHANGED <<apiVars, csvVars, uiVars, mrfVars, dateVars, sortVars, filterVars>>
    \/ ClearFeedback /\ UNCHANGED <<apiVars, csvVars, uiVars, mrfVars, dateVars, sortVars, filterVars>>
    \/ Tick /\ UNCHANGED <<apiVars, csvVars, uiVars, mrfVars, dateVars, sortVars, filterVars>>

InitFeedback == FbInit /\ ApiIdle /\ CsvIdle /\ UiIdle /\ MrfIdle /\ DateIdle /\ SortIdle /\ FilterIdle
SpecFeedback == InitFeedback /\ [][FbNext]_vars

CsvNext ==
    \/ FormatCsvCell /\ UNCHANGED <<apiVars, fbVars, uiVars, mrfVars, dateVars, sortVars, filterVars>>
    \/ \E v \in CsvValues : NextCsvValue(v) /\ UNCHANGED <<apiVars, fbVars, uiVars, mrfVars, dateVars, sortVars, filterVars>>

InitCsv == CsvInit /\ ApiIdle /\ FbIdle /\ UiIdle /\ MrfIdle /\ DateIdle /\ SortIdle /\ FilterIdle
SpecCsv == InitCsv /\ [][CsvNext]_vars

\* The dashboard's project tables with their sort headers and export buttons.
Next ==
    \/ FetchActiveProjects /\ UNCHANGED <<fbVars, csvVars, mrfVars, dateVars, sortVars, filterVars>>
    \/ \E resp \in ListResponses(ActiveDataSets) :
          FetchActiveProjectsDone(resp) /\ UNCHANGED <<fbVars, csvVars, mrfVars, dateVars, sortVars, filterVars>>
    \/ FetchCompletedProjects /\ UNCHANGED <<fbVars, csvVars, mrfVars, dateVars, sortVars, filterVars>>
    \/ \E resp \in ListResponses(CompletedDataSets) :
          FetchCompletedProjectsDone(resp) /\ UNCHANGED <<fbVars, csvVars, mrfVars, dateVars, sortVars, filterVars>>
    \/ \E tableId \in Tables, sortKey \in SortKeys :
          ClickSortHeader(tableId, sortKey) /\ UNCHANGED <<fbVars, csvVars, mrfVars, dateVars, sortVars, filterVars>>
    \/ \E tableId \in Tables, browser \in Browsers :
          exportToCSV(tableId, browser) /\ UNCHANGED <<fbVars, csvVars, mrfVars, dateVars, sortVars, filterVars>>

\* The dashboard is open only with a token stored.
Init ==
    /\ UiInit
    /\ authToken = TRUE /\ location = "index.html" /\ apiCall = NoCall
    /\ FbIdle /\ CsvIdle /\ MrfIdle /\ DateIdle /\ SortIdle /\ FilterIdle
Spec == Init /\ [][Next]_vars

\* The tables with their filter inputs: fetches, header clicks and keyups.
FilterNext ==
    \/ FetchActiveProjects /\ UNCHANGED <<fbVars, csvVars, mrfVars, dateVars, sortVars, filterVars>>
    \/ \E resp \in ListResponses(ActiveDataSets) :
          FetchActiveProjectsDone(resp)
              /\ UNCHANGED <<fbVars, csvVars, mrfVars, dateVars, sortVars, filterVars>>
    \/ FetchCompletedProjects
          /\ UNCHANGED <<fbVars, csvVars, mrfVars, dateVars, sortVars, filterVars>>
    \/ \E resp \in ListResponses(CompletedDataSets) :
          FetchCompletedProjectsDone(resp)
              /\ UNCHANGED <<fbVars, csvVars, mrfVars, dateVars, sortVars, filterVars>>
    \/ \E tableId \in Tables, sortKey \in SortKeys :
          ClickSortHeader(tableId, sortKey)
              /\ UNCHANGED <<fbVars, csvVars, mrfVars, dateVars, sortVars, filterVars>>
    \/ \E tableId \in Tables, text \in FilterInputTexts :
          KeyUp(tableId, text) /\ UNCHANGED <<fbVars, csvVars, mrfVars, dateVars, sortVars>>
SpecFilter == Init /\ [][FilterNext]_vars

\* The inline status edit of the active table: the server lists one project
\* without a status and one with, and the refetches a save starts are answered.
EditNext ==
    \/ FetchActiveProjectsDone(JsonResponse(200, JsArray(<<P3, P1>>)))
          /\ UNCHANGED <<fbVars, csvVars, mrfVars, dateVars, sortVars, filterVars>>
    \/ FetchCompletedProjectsDone(JsonResponse(200, JsArray(<<Q1>>)))
          /\ UNCHANGED <<fbVars, csvVars, mrfVars, dateVars, sortVars, filterVars>>
    \/ \E i \in 1..Len(activeRows) : makeCellEditable(i) /\ UNCHANGED <<fbVars, csvVars, mrfVars, dateVars, sortVars, filterVars>>
    \/ \E typed \in InputTexts : saveEdit(typed) /\ UNCHANGED <<fbVars, csvVars, mrfVars, dateVars, sortVars, filterVars>>
    \/ cancelEdit /\ UNCHANGED <<fbVars, csvVars, mrfVars, dateVars, sortVars, filterVars>>
    \/ \E n \in 1..Len(puts) : \E resp \in PutResponses(puts[n].valueToSend) :
          saveEditDone(n, resp) /\ UNCHANGED <<fbVars, csvVars, mrfVars, dateVars, sortVars, filterVars>>

SpecEdit == Init /\ [][EditNext]_vars

\* The MRF items log page.
MrfNext ==
    \/ \E n \in 1..Len(mrfRequests), resp \in MrfListResponses :
          FetchMrfLogDone(n, resp) /\ UNCHANGED <<apiVars, fbVars, csvVars, uiVars, dateVars, sortVars, filterVars>>
    \/ \E i \in 1..Len(mrfRows) :
          ClickDelete(i) /\ UNCHANGED <<apiVars, fbVars, csvVars, uiVars, dateVars, sortVars, filterVars>>
    \/ \E n \in 1..Len(mrfRequests), resp \in MrfWriteResponses :
          DeleteMrfItemDone(n, resp) /\ UNCHANGED <<apiVars, fbVars, csvVars, uiVars, dateVars, sortVars, filterVars>>
    \/ \E i \in 1..Len(mrfRows) :
          ClickCell(i) /\ UNCHANGED <<apiVars, fbVars, csvVars, uiVars, dateVars, sortVars, filterVars>>
    \/ \E i \in 1..Len(mrfRows), newValue \in MrfInputs :
          saveEditedMrfItem(i, newValue) /\ UNCHANGED <<apiVars, fbVars, csvVars, uiVars, dateVars, sortVars, filterVars>>
    \/ \E n \in 1..Len(mrfRequests), resp \in MrfWriteResponses :
          SaveEditedMrfItemDone(n, resp) /\ UNCHANGED <<apiVars, fbVars, csvVars, uiVars, dateVars, sortVars, filterVars>>
    \/ \E formNo \in FilterTexts :
          ClickApplyFilters(formNo) /\ UNCHANGED <<apiVars, fbVars, csvVars, uiVars, dateVars, sortVars, filterVars>>
    \/ ClickResetFilters /\ UNCHANGED <<apiVars, fbVars, csvVars, uiVars, dateVars, sortVars, filterVars>>

InitMrf == MrfInit /\ ApiIdle /\ FbIdle /\ CsvIdle /\ UiIdle /\ DateIdle /\ SortIdle /\ FilterIdle
SpecMrf == InitMrf /\ [][MrfNext]_vars

\* parseDate on its own.
DateNext ==
    \/ ParseDate /\ UNCHANGED <<apiVars, fbVars, csvVars, uiVars, mrfVars, sortVars, filterVars>>
    \/ \E s \in DateStrings :
          NextDateStr(s) /\ UNCHANGED <<apiVars, fbVars, csvVars, uiVars, mrfVars, sortVars, filterVars>>

InitDate == DateInit /\ ApiIdle /\ FbIdle /\ CsvIdle /\ UiIdle /\ MrfIdle /\ SortIdle /\ FilterIdle
SpecDate == InitDate /\ [][DateNext]_vars

\* The sort of the two tables on its own, in either browser.
SortNext ==
    SortDataToRender /\ UNCHANGED <<apiVars, fbVars, csvVars, uiVars, mrfVars, dateVars, filterVars>>

InitSort ==
    /\ SortInit /\ ApiIdle /\ FbIdle /\ CsvIdle /\ UiIdle /\ MrfIdle /\ FilterIdle
    /\ dateStr = <<>> /\ dateParsed = NotParsed /\ engine \in Engines
SpecSort == InitSort /\ [][SortNext]_vars

(***************************************************************************)
(* The claims                                                              *)
(***************************************************************************)
Answered401 == apiCall.state = "settled" /\ ~apiCall.resp.net /\ apiCall.resp.status = 401
AnsweredNotOk ==
    apiCall.state = "settled" /\ ~apiCall.resp.net /\ ~ResponseOk(apiCall.resp)

\* C3: a request answered with HTTP 401 removes the authToken entry, redirects
\* the browser to login.html and rejects with the message 'Unauthorized', which
\* the network-error message does not replace.
C3_UnauthorizedHandled ==
    Answered401 =>
        /\ authToken = FALSE
        /\ location = "login.html"
        /\ apiCall.result.k = "reject"
        /\ apiCall.result.error.message = "Unauthorized"

C3_Witness == Answered401 /\ apiCall.result.k = "reject"

\* C4: apiFetch resolves only when the response is OK (a 204 gives the fixed
\* success-message object); every non-OK response rejects, whatever its content
\* type and whether or not its body can be read.
C4_ResolvesOnlyWhenOk ==
    apiCall.state = "settled" =>
        /\ apiCall.result.k = "resolve" => (~apiCall.resp.net /\ ResponseOk(apiCall.resp))
        /\ (~apiCall.resp.net /\ apiCall.resp.status = 204) =>
              /\ apiCall.result.k = "resolve"
              /\ apiCall.result.value = JsObj(Undef, "Operation successful (No Content).")
        /\ AnsweredNotOk => apiCall.result.k = "reject"

C4_Witness ==
    /\ AnsweredNotOk
    /\ apiCall.resp.status = 500
    /\ apiCall.resp.ctype = "application/json"
    /\ apiCall.resp.body.raw = "text"
    /\ apiCall.result.k = "reject"

\* C5: the network-error message is used only when the fetch itself failed;
\* a non-OK answer of the server is rejected with the server's message or the
\* HTTP status.
C5_NetworkMessageOnlyOnNetworkFailure ==
    (apiCall.state = "settled" /\ apiCall.result.k = "reject"
        /\ apiCall.result.error.message = NetworkErrorText(apiCall.url))
    => apiCall.resp.net

\* What a CSV reader makes of one field: the text between the enclosing
\* quotes with each doubled quote read as one, or the field as it is.
RECURSIVE UndoubleQuotes(_)
UndoubleQuotes(s) ==
    IF s = <<>> THEN <<>>
    ELSE IF Len(s) >= 2 /\ s[1] = Quote /\ s[2] = Quote
         THEN <<Quote>> \o UndoubleQuotes(SubSeq(s, 3, Len(s)))
         ELSE <<Head(s)>> \o UndoubleQuotes(Tail(s))
CsvUnquote(field) ==
    IF Len(field) >= 2 /\ field[1] = Quote /\ field[Len(field)] = Quote
    THEN UndoubleQuotes(SubSeq(field, 2, Len(field) - 1))
    ELSE field
\* The quotes of a field that are not doubled, the enclosing pair apart.
RECURSIVE LoneQuotes(_)
LoneQuotes(s) ==
    IF s = <<>> THEN 0
    ELSE IF Head(s) # Quote THEN LoneQuotes(Tail(s))
    ELSE IF Len(s) >= 2 /\ s[2] = Quote THEN LoneQuotes(SubSeq(s, 3, Len(s)))
    ELSE 1 + LoneQuotes(Tail(s))
CountOf(s, c) == Cardinality({i \in 1..Len(s) : s[i] = c})

C8_TimerHidesOnlyItsOwnMessage ==
    fbLastHide.by # 0 => fbLastHide.by = fbLastHide.shown

\* ---- the project tables ----
\* The project of data that a row shows.
ProjectOfRow(data, row) == data[FindIndex(data, row.id)]
\* No data row of rows stands before one that the comparator puts before it.
RowsOrdered(rows, data, sort) ==
    \A i, j \in 1..Len(rows) :
        (/\ i < j
         /\ rows[i].kind = "data" /\ rows[j].kind = "data"
         /\ FindIndex(data, rows[i].id) # 0 /\ FindIndex(data, rows[j].id) # 0)
        => CompareProjects(ProjectOfRow(data, rows[i]), ProjectOfRow(data, rows[j]),
                           sort.key, sort.direction) <= 0

\* C1: the rows the active table shows and the rows the completed table shows
\* are each ordered by currentSort.key in currentSort.direction, whatever header
\* clicks and fetches came before.
C1_TablesOrderedByCurrentSort ==
    /\ RowsOrdered(activeRows, currentProjectsData, currentSort)
    /\ RowsOrdered(completedRows, currentCompletedProjectsData, currentSort)

\* ---- the export ----
\* A reader of CSV text as RFC 4180 has it: a comma or a newline with an even
\* number of quotes before it separates, one inside quotes does not.
Separators(text, sep) ==
    {i \in 1..Len(text) :
        /\ text[i] = sep
        /\ Cardinality({j \in 1..(i - 1) : text[j] = Quote}) % 2 = 0}
\* The pieces of text between the positions seps.
SplitAt(text, seps) ==
    LET n == Cardinality(seps)
        pos(k) == CHOOSE i \in seps : Cardinality({j \in seps : j < i}) = k - 1
    IN [k \in 1..(n + 1) |->
           SubSeq(text, IF k = 1 THEN 1 ELSE pos(k - 1) + 1,
                        IF k = n + 1 THEN Len(text) ELSE pos(k) - 1)]
\* The records of text, each the sequence of its fields as a reader sees them.
CsvRecords(text) ==
    LET lines == SplitAt(text, Separators(text, Newline)) IN
    [k \in 1..Len(lines) |->
        LET fields == SplitAt(lines[k], Separators(lines[k], Comma)) IN
        [f \in 1..Len(fields) |-> CsvUnquote(fields[f])]]

ClientText(project) == IF project.client.t = "string" THEN project.client.s ELSE <<>>
\* The project array behind a table.
ArrayOf(tableId) ==
    IF tableId = "active-project-table" THEN currentProjectsData
    ELSE currentCompletedProjectsData

C10_WitnessEmpty ==
    lastEvent.op = "exportToCSV" /\ ~lastEvent.blob

\* ---- the inline status edit ----
\* The projects whose status cell, in either table, holds an <input>.
InputCells(rows) ==
    {i \in 1..Len(rows) : rows[i].kind = "data" /\ rows[i].status.input}
EditedProjects ==
    {activeRows[i].id : i \in InputCells(activeRows)}
        \cup {completedRows[i].id : i \in InputCells(completedRows)}

\* C6: at most one cell of the project tables holds an edit input; while
\* currentlyEditingCell refers to a cell no step puts an input into another
\* cell, and a makeCellEditable that is refused changes no cell and only warns.
C6_AtMostOneCellInEditMode ==
    /\ [](Cardinality(InputCells(activeRows)) + Cardinality(InputCells(completedRows)) <= 1)
    /\ [][/\ currentlyEditingCell.cell # "null" => EditedProjects' \subseteq EditedProjects
          /\ (lastEvent'.op = "makeCellEditable" /\ lastEvent' # lastEvent)
                => /\ lastEvent'.feedback = WarnOtherEdit
                   /\ activeRows' = activeRows /\ completedRows' = completedRows
                   /\ currentlyEditingCell' = currentlyEditingCell]_vars

\* A double click on the status cell of one row was refused while the status
\* cell of the other row holds the input.
C6_Witness ==
    /\ lastEvent.op = "makeCellEditable"
    /\ Cardinality(InputCells(activeRows)) = 1
    /\ currentlyEditingCell.cell = "attached"
    /\ Len(activeRows) = 2

\* C7: once the PUT of saveEdit is answered the cell does not show 'Saving...'
\* any more: it shows the saved percent value when apiFetch resolved and the
\* text it showed before the edit when apiFetch rejected.
C7_CellSettledAfterPut ==
    lastEvent.op = "saveEditDone" =>
        /\ lastEvent.cellText # Saving
        /\ lastEvent.settled = "resolve" => lastEvent.cellText = lastEvent.displayValue
        /\ lastEvent.settled = "reject"
              => lastEvent.cellText = lastEvent.originalDisplayValue

\* ---- the MRF items log ----
\* C2: when a request of the MRF items log fails (no answer, or an answer
\* whose status is not OK), the catch block of its handler runs, the user is
\* shown an error text, and the handler sends no request.
C2_FailureShownAndNotRetried ==
    (mrfLast.op \in {"fetchMrfLog", "deleteMrfItem", "saveEditedMrfItem"} /\ mrfLast.failed) =>
        /\ mrfLast.caught
        /\ mrfLast.shown # ""
        /\ mrfLast.sent = 0
        /\ mrfLast.op = "fetchMrfLog" => mrfErrorDisplay = mrfLast.shown
        /\ mrfLast.op # "fetchMrfLog" => mrfAlert = mrfLast.shown

\* A DELETE has failed while another request was still waiting for its answer.
C2_Witness ==
    /\ mrfLast.op = "deleteMrfItem" /\ mrfLast.failed
    /\ mrfAlert = "Failed to delete item: not found"
    /\ Len(mrfRequests) = 1

\* ---- parseDate ----
\* The day a string of the form YYYY-MM-DD or M/D/YYYY writes.
Written(s) == IF IsoMatch(s).ok THEN IsoMatch(s) ELSE SlashMatch(s)
Exists(w) ==
    /\ w.month \in 1..12
    /\ w.day >= 1
    /\ w.day <= (IF w.month = 2
                 THEN (IF w.year % 4 = 0 /\ (w.year % 100 # 0 \/ w.year % 400 = 0)
                       THEN 29 ELSE 28)
                 ELSE IF w.month \in {4, 6, 9, 11} THEN 30 ELSE 31)

\* C11: for a string in YYYY-MM-DD or M/D/YYYY form parseDate returns null
\* when the day written does not exist, and never a Date for another day than
\* the one written.
C11_ParseDateNullOrTheDayWritten ==
    (dateParsed # NotParsed /\ Written(dateStr).ok) =>
        LET w == Written(dateStr) IN
        /\ ~Exists(w) => dateParsed = JsNull
        /\ dateParsed # JsNull => dateParsed = [t |-> "date", y |-> w.year, m |-> w.month,
                                                d |-> w.day]

\* ---- the filters of the MRF items log ----
\* C12: after 'Apply Filters' is clicked with a Form No. in the filter input,
\* the item rows displayed are the ones of that Form No.
C12_ApplyFiltersRestrictsRows ==
    (mrfLast.op = "applyFilters" /\ mrfLast.formNo # "") =>
        \A i \in 1..Len(mrfRows) :
            mrfRows[i].kind = "item" => mrfRows[i].form_no = mrfLast.formNo

\* ---- the sort state ----
\* C13: the sort state starts as remaining_amount, descending; a click on the
\* header of the current key keeps the key and flips the direction, a click on
\* another header sets that key with the direction ascending; nothing else
\* changes the sort state.
C13_SortStateFollowsClicks ==
    /\ currentSort = [key |-> "remaining_amount", direction |-> "desc"]
    /\ [][/\ \A tableId \in Tables, sortKey \in SortKeys :
              ClickSortHeader(tableId, sortKey) =>
                  /\ currentSort'.key = sortKey
                  /\ currentSort'.direction \in {"asc", "desc"}
                  /\ currentSort.key = sortKey =>
                         currentSort'.direction # currentSort.direction
                  /\ currentSort.key # sortKey => currentSort'.direction = "asc"
          /\ currentSort' # currentSort =>
                 \E tableId \in Tables, sortKey \in SortKeys :
                     ClickSortHeader(tableId, sortKey)]_vars
\* A second click on the client header has turned the direction to descending.
C13_Witness == currentSort = [key |-> "client", direction |-> "desc"]

\* ---- rows without a sort value ----
\* The value under the sort key is missing: null, the empty string, or text
\* that is no number (for a numeric key) and no date (for a date key).
IsMissing(project, key) ==
    \/ project[key] \in {[t |-> "null"], [t |-> "string", s |-> <<>>]}
    \/ key \in {"po_date", "date_completed", "status", "remaining_amount"}
          /\ project[key] = [t |-> "string", s |-> <<"N", "/", "A">>]

C15_FailedSaveRestoresCell ==
    (mrfLast.op = "saveEditedMrfItem" /\ mrfLast.failed) =>
        mrfLast.cellText = mrfLast.before

\* ---- the filter of a project table ----
\* C16: every project row a table displays contains the text of the table's
\* filter input, whatever the case of the letters, in a cell that is no
\* action column.
C16_DisplayedRowsMatchFilter ==
    \A tableId \in Tables :
        LET rows == IF tableId = "active-project-table" THEN activeRows ELSE completedRows
        IN \A i \in 1..Len(rows) :
               (rows[i].kind = "data" /\ rows[i].display = "") =>
                   \E j \in 1..Len(CellTexts(rows[i])) :
                       Includes(toLowerCase(CellTexts(rows[i])[j]),
                                toLowerCase(filterInputs[tableId]))
====
